---- MODULE Spec2Model ----
(***************************************************************************)
(* A model of gamepad.py: the capability mirror (extract_capabilities),    *)
(* the start-up sequence of run() that creates the one virtual device, and *)
(* the wait / grab / relay loop of run() with its two exception handlers.  *)
(*                                                                         *)
(* The platform (evdev) is the environment: which device sits at the       *)
(* configured path, whether it can be opened and grabbed, which events it  *)
(* delivers, and whether a write to the virtual device raises.             *)
(***************************************************************************)
EXTENDS Integers, Sequences, FiniteSets, TLC

\* ------------------------------------------------------------------ bounds

\* Number of distinct absolute-axis codes a source device may report.
NumAbsCodes == 2
\* Number of events the physical device delivers in one run of the model.
MaxEvents == 3
\* Number of events the device delivers in a run of LiveSpec.
MaxLiveEvents == 1
\* Number of times a write or flush on the virtual device raises in one run.
MaxUiFaults == 1
\* Constructions of the virtual device that are counted (the counter saturates).
MaxCreations == 2

\* --------------------------------------------------------------- constants

NoDev == "NoDev"
NoHandle ==
    [device |-> NoDev, alive |-> FALSE, grabbed |-> FALSE, failed |-> FALSE, closed |-> FALSE]
NoUI == [none |-> TRUE]
NoCaps == [none |-> TRUE]
NoEvent == [type |-> "none", code |-> "none", value |-> 0]

AbsCodes == 0 .. (NumAbsCodes - 1)
KeyLists == { <<>>, <<"BTN_A", "BTN_B">> }
FFLists == { <<>>, <<"FF_RUMBLE">> }

\* AbsInfo(value, min, max, fuzz, flat, resolution) as the bulk query
\* reports it, and as the per-code query reports it (the current value may
\* have moved between the two queries).
BulkInfo(code) ==
    [value |-> 0, min |-> 0, max |-> 255, fuzz |-> 0, flat |-> code, resolution |-> 0]
QueryInfo(code) ==
    [value |-> 1, min |-> 0, max |-> 255, fuzz |-> 0, flat |-> code, resolution |-> 0]

\* Python's None where an AbsInfo was expected.
NoneInfo == [none |-> TRUE]

AbsInfoFields == {"value", "min", "max", "fuzz", "flat", "resolution"}

\* One entry of raw[EV_ABS]: a (code, AbsInfo) pair, a bare int code, or a
\* tuple whose second member is no AbsInfo.
AbsEntries ==
    { [kind |-> "pair", code |-> c, info |-> BulkInfo(c)] : c \in AbsCodes }
      \cup { [kind |-> k, code |-> c] : k \in {"int", "tuple"}, c \in AbsCodes }

\* Outcome of dev.absinfo(code): an AbsInfo, None, or an exception.
AbsOutcomes == {"ok", "none", "raise"}

RECURSIVE SeqsUpTo(_, _)
SeqsUpTo(S, n) ==
    IF n = 0 THEN { <<>> }
    ELSE LET shorter == SeqsUpTo(S, n - 1)
         IN shorter \cup { Append(s, x) : s \in { t \in shorter : Len(t) = n - 1 }, x \in S }

DistinctCodes(s) ==
    \A i, j \in 1 .. Len(s) : i # j => s[i].code # s[j].code

AbsLists == { s \in SeqsUpTo(AbsEntries, NumAbsCodes) : DistinctCodes(s) }

\* What dev.capabilities(absinfo=True) may return: a dict that holds a
\* category only when the device reports it.
RawOf(hasKey, keys, hasAbs, abs, hasFF, ff) ==
    [t \in (IF hasKey THEN {"EV_KEY"} ELSE {})
             \cup (IF hasAbs THEN {"EV_ABS"} ELSE {})
             \cup (IF hasFF THEN {"EV_FF"} ELSE {})
       |-> IF t = "EV_KEY" THEN keys ELSE IF t = "EV_ABS" THEN abs ELSE ff]

RawCaps ==
    { RawOf(TRUE, k, TRUE, a, TRUE, f) : k \in KeyLists, a \in AbsLists, f \in FFLists }
      \cup { RawOf(hk, <<"BTN_A">>, ha, <<>>, hf, <<"FF_RUMBLE">>) :
                hk \in BOOLEAN, ha \in BOOLEAN, hf \in BOOLEAN }

\* A source device as extract_capabilities sees it.
Sources ==
    { [raw |-> r, absq |-> q] : r \in RawCaps, q \in [AbsCodes -> AbsOutcomes] }

\* ---------------------------------------------------- extract_capabilities

\* raw.get(t, [])
RawGet(raw, t) == IF t \in DOMAIN raw THEN raw[t] ELSE <<>>

\* dev.absinfo(code): the value returned, when it returns.
AbsinfoValue(absq, code) ==
    IF absq[code] = "ok" THEN QueryInfo(code) ELSE NoneInfo

\* A per-code query that keeps a code whose metadata came back as None.
ResolveEntryKeepNone(entry, absq) ==
    IF entry.kind = "pair"
    THEN << [code |-> entry.code, info |-> entry.info] >>
    ELSE IF absq[entry.code] = "raise"
         THEN <<>>
         ELSE << [code |-> entry.code, info |-> AbsinfoValue(absq, entry.code)] >>

\* One pass of the loop body over raw[EV_ABS]: the (code, info) appended for
\* this entry, or nothing when the loop continues without appending.
ResolveEntry(entry, absq) ==
    IF entry.kind = "pair"
    THEN << [code |-> entry.code, info |-> entry.info] >>
    ELSE IF absq[entry.code] = "raise"
         THEN <<>>
         ELSE IF AbsinfoValue(absq, entry.code) # NoneInfo
              THEN << [code |-> entry.code, info |-> AbsinfoValue(absq, entry.code)] >>
              ELSE <<>>

\* The loop with 'break' where the code has 'continue': the first code whose
\* query fails ends the enumeration.
RECURSIVE AbsLoopBreak(_, _)
AbsLoopBreak(entries, absq) ==
    IF entries = <<>> THEN <<>>
    ELSE IF ResolveEntry(Head(entries), absq) = <<>>
         THEN <<>>
         ELSE ResolveEntry(Head(entries), absq) \o AbsLoopBreak(Tail(entries), absq)

\* for entry in raw.get(EV_ABS, []): ... abs_list.append((code, info))
RECURSIVE AbsLoop(_, _)
AbsLoop(entries, absq) ==
    IF entries = <<>> THEN <<>>
    ELSE ResolveEntry(Head(entries), absq) \o AbsLoop(Tail(entries), absq)

\* A descriptor that always carries the force-feedback category.
CapsDictAlwaysFF(keys, abs_list, ff) ==
    [t \in {"EV_KEY", "EV_FF"} \cup (IF abs_list # <<>> THEN {"EV_ABS"} ELSE {})
       |-> IF t = "EV_KEY" THEN keys ELSE IF t = "EV_ABS" THEN abs_list ELSE ff]

\* caps as the three assignments leave it: EV_KEY always, EV_ABS and EV_FF
\* only when their list is not empty.
CapsDict(keys, abs_list, ff) ==
    [t \in {"EV_KEY"} \cup (IF abs_list # <<>> THEN {"EV_ABS"} ELSE {})
                      \cup (IF ff # <<>> THEN {"EV_FF"} ELSE {})
       |-> IF t = "EV_KEY" THEN keys ELSE IF t = "EV_ABS" THEN abs_list ELSE ff]

extract_capabilities(src) ==
    CapsDict(RawGet(src.raw, "EV_KEY"),
             AbsLoop(RawGet(src.raw, "EV_ABS"), src.absq),
             RawGet(src.raw, "EV_FF"))

\* ------------------------------------------------------------ the platform

Devices == {"padA", "padB"}

\* padA: two buttons, one axis with bulk metadata, one axis the per-code
\* query answers None for, and a rumble effect.
SourceA ==
    [raw |-> RawOf(TRUE, <<"BTN_A", "BTN_B">>,
                   TRUE, << [kind |-> "pair", code |-> 0, info |-> BulkInfo(0)],
                            [kind |-> "int", code |-> 1] >>,
                   TRUE, <<"FF_RUMBLE">>),
     absq |-> [c \in AbsCodes |-> IF c = 0 THEN "ok" ELSE "none"]]

\* padB: a device node that reports no button, axis or effect at all.
SourceB ==
    [raw |-> RawOf(FALSE, <<>>, FALSE, <<>>, FALSE, <<>>),
     absq |-> [c \in AbsCodes |-> "ok"]]

\* dev.info of each device: (bustype, vendor, product, version).
Info(d) ==
    IF d = "padA"
    THEN [bustype |-> 3, vendor |-> 1, product |-> 2, version |-> 1]
    ELSE [bustype |-> 5, vendor |-> 4, product |-> 3, version |-> 2]

NoIdent == [bustype |-> 0, vendor |-> 0, product |-> 0, version |-> 0]

\* The events a physical device delivers; SYN_REPORT closes a frame.
SynReport == [type |-> "EV_SYN", code |-> "SYN_REPORT", value |-> 0]
BtnPress == [type |-> "EV_KEY", code |-> "BTN_A", value |-> 1]
AxisMove == [type |-> "EV_ABS", code |-> "ABS_X", value |-> 128]
PhysEvents == {BtnPress, AxisMove, SynReport}

\* --------------------------------------------------------------- parse_args

\* The four options of the parser.
Options == { "--device-link", "--event-path", "--js-path", "--virtual-name" }

\* The option's value is stored under another option's name.
DestSwapped ==
    [ o \in Options |->
        CASE o = "--device-link" -> "device_link"
          [] o = "--event-path" -> "js_path"
          [] o = "--js-path" -> "event_path"
          [] OTHER -> "virtual_name" ]

\* argparse derives the attribute from the option string.
Dest ==
    [ o \in Options |->
        CASE o = "--device-link" -> "device_link"
          [] o = "--event-path" -> "event_path"
          [] o = "--js-path" -> "js_path"
          [] OTHER -> "virtual_name" ]

\* The default= of each add_argument.
Defaults ==
    [ device_link |-> "/dev/input/by-id/usb-1038_SteelSeries_Stratus_Duo-event-joystick",
      event_path |-> "/tmp/gamepad-event",
      js_path |-> "/tmp/gamepad-js",
      virtual_name |-> "VirtualGamepad" ]

\* ARGS before main() has run, and the parser's exit (SystemExit).
NoArgs == [ none |-> TRUE ]
ParserExit == [ exit |-> TRUE ]

\* Strings that argparse takes for an option string: they begin with "-",
\* are no negative number and hold no space.
Abbreviations == { "--js" }
UnknownFlags == { "--unknown-arg" }
DashValues == { "-x" }
OptionLike == Options \cup Abbreviations \cup UnknownFlags \cup DashValues

\* The option an option string selects: itself, or the one option it is an
\* unambiguous prefix of; none for any other string.
Selects(tok) ==
    IF tok \in Options THEN { tok }
    ELSE IF tok = "--js" THEN { "--js-path" }
    ELSE {}

RECURSIVE ParseFrom(_, _, _)
\* parser.parse_args consumes args from position i on. An option takes the
\* next string when that is an argument, else the parser reports "expected
\* one argument"; any string left over is "unrecognized": both exit.
ParseFrom(args, i, ns) ==
    IF i > Len(args) THEN ns
    ELSE IF Selects(args[i]) = {} THEN ParserExit
    ELSE IF i + 1 > Len(args) \/ args[i + 1] \in OptionLike THEN ParserExit
    ELSE LET o == CHOOSE x \in Selects(args[i]) : TRUE
         IN ParseFrom(args, i + 2, [ns EXCEPT ![Dest[o]] = args[i + 1]])

parse_args(args) == ParseFrom(args, 1, Defaults)

\* One option with its value, as given in the tests, and single strings.
ArgItems ==
    { << o, v >> : o \in Options, v \in { "", "/opt/ev" } \cup DashValues }
        \cup { << "--js", "/opt/ev" >>, << "--unknown-arg", "value" >>,
               << "--event-path" >>, << "/opt/ev" >> }

\* The most items on a command line: one for each option.
MaxItems == Cardinality(Options)

RECURSIVE Flatten(_)
Flatten(items) ==
    IF items = <<>> THEN <<>> ELSE Head(items) \o Flatten(Tail(items))

CommandLines == { Flatten(items) : items \in SeqsUpTo(ArgItems, MaxItems) }

\* ----------------------------------------------------------- create_symlinks

\* What a path of the file system holds.
Absent == [ kind |-> "absent", target |-> "" ]
File == [ kind |-> "file", target |-> "" ]
Dir == [ kind |-> "dir", target |-> "" ]
Link(node) == [ kind |-> "link", target |-> node ]

\* The paths ARGS.event_path and ARGS.js_path may name.
AliasPaths == { "/tmp/gamepad-event", "/tmp/gamepad-js", "/opt/ev", "gamepad-event" }

\* os.path.dirname(dst)
DirName(dst) ==
    CASE dst \in { "/tmp/gamepad-event", "/tmp/gamepad-js" } -> "/tmp"
      [] dst = "/opt/ev" -> "/opt"
      [] OTHER -> ""

\* entry.startswith('input')
IsInputEntry(entry) == entry \in { "input7", "input8" }

\* child.startswith('event'), child.startswith('js')
ChildKind(child) ==
    CASE child \in { "event5", "event3" } -> "event"
      [] child \in { "js0", "js1" } -> "js"
      [] OTHER -> "other"

\* The outcome of create_symlinks on a file system: what it left, what it
\* returned, what it printed, and the paths os.unlink removed.
Outcome(f, ret, reports, unlinked) ==
    [ fs |-> f, ret |-> ret, reports |-> reports, unlinked |-> unlinked ]

\* os.unlink is never called: os.symlink finds dst taken and raises.
LinkChildKeepsExisting(f, args, child) ==
    LET dst == IF ChildKind(child) = "event" THEN args.event_path ELSE args.js_path
        dst_dir == DirName(dst)
        made == [f EXCEPT !.dirs = @ \cup { dst_dir }]
    IN IF ChildKind(child) = "other" \/ child \notin f.nodes
         THEN Outcome(f, "True", <<>>, {})
       ELSE IF dst_dir \notin f.dirs /\ dst_dir \notin f.makeable
         THEN Outcome(f, "raised", <<>>, {})
       ELSE IF made.objs[dst].kind # "absent" \/ dst_dir \in made.locked
         THEN Outcome(made, "True", << "Error creating" >>, {})
       ELSE Outcome([made EXCEPT !.objs[dst] = Link(child)], "True", << "linked" >>, {})

\* One child of the virtual device's entry: dst is replaced by a link to the
\* child's node under /dev/input, if that node exists. "raised" is an
\* exception of os.makedirs, which nothing catches.
LinkChild(f, args, child) ==
    LET dst == IF ChildKind(child) = "event" THEN args.event_path ELSE args.js_path
        dst_dir == DirName(dst)
        made == [f EXCEPT !.dirs = @ \cup { dst_dir }]
        present == made.objs[dst].kind # "absent"
        unlinkRaises == made.objs[dst].kind = "dir" \/ dst_dir \in made.locked
        cleared == IF present THEN [made EXCEPT !.objs[dst] = Absent] ELSE made
        unlinked == IF present THEN { dst } ELSE {}
    IN IF ChildKind(child) = "other" \/ child \notin f.nodes
         THEN Outcome(f, "True", <<>>, {})
       ELSE IF dst_dir \notin f.dirs /\ dst_dir \notin f.makeable
         THEN Outcome(f, "raised", <<>>, {})
       ELSE IF present /\ unlinkRaises
         THEN Outcome(made, "True", << "Error removing" >>, {})
       ELSE IF dst_dir \in cleared.locked
         THEN Outcome(cleared, "True", << "Error creating" >>, unlinked)
       ELSE Outcome([cleared EXCEPT !.objs[dst] = Link(child)], "True", << "linked" >>,
                    unlinked)

RECURSIVE LinkChildrenFrom(_, _, _, _, _)
\* for child in os.listdir(entry): ...; return True
LinkChildrenFrom(f, args, children, i, done) ==
    IF i > Len(children) THEN Outcome(f, "True", done.reports, done.unlinked)
    ELSE LET one == LinkChild(f, args, children[i])
             both == [ reports |-> done.reports \o one.reports,
                       unlinked |-> done.unlinked \cup one.unlinked ]
         IN IF one.ret = "raised" THEN Outcome(one.fs, "raised", done.reports, done.unlinked)
            ELSE LinkChildrenFrom(one.fs, args, children, i + 1, both)

\* Nothing printed and nothing removed yet.
NothingDone == [ reports |-> <<>>, unlinked |-> {} ]

\* Only the first child of the entry is linked.
LinkChildrenFirstOnly(f, args, children) ==
    LinkChildrenFrom(f, args, IF children = <<>> THEN <<>> ELSE << Head(children) >>, 1,
                     NothingDone)

LinkChildren(f, args, children) == LinkChildrenFrom(f, args, children, 1, NothingDone)

RECURSIVE ScanFrom(_, _, _)
\* for entry in os.listdir(sys_input): the first input* entry whose name file
\* reads as ARGS.virtual_name is linked and ends the scan. A name file that
\* is missing is skipped; any other error of open, and an error of the
\* entry's os.listdir, is not caught.
ScanFrom(f, args, i) ==
    IF i > Len(f.entries)
      THEN Outcome(f, "False", << "Could not find" >>, {})
    ELSE LET e == f.entries[i]
         IN IF ~IsInputEntry(e.entry) \/ e.name_file = "missing"
              THEN ScanFrom(f, args, i + 1)
            ELSE IF e.name_file = "denied"
              THEN Outcome(f, "raised", <<>>, {})
            ELSE IF e.name # args.virtual_name
              THEN ScanFrom(f, args, i + 1)
            ELSE IF ~e.listable
              THEN Outcome(f, "raised", <<>>, {})
            ELSE LinkChildren(f, args, e.children)

\* create_symlinks() with ARGS set: os.listdir(sys_input) may raise.
create_symlinks(f, args) ==
    IF ~f.listable THEN Outcome(f, "raised", <<>>, {}) ELSE ScanFrom(f, args, 1)

\* Entries of /sys/class/input.
SysEntry(entry, name_file, name, listable, children) ==
    [ entry |-> entry, name_file |-> name_file, name |-> name,
      listable |-> listable, children |-> children ]

\* Entries that may precede the virtual device's in the listing.
OtherEntries ==
    { SysEntry("mouse0", "ok", "VirtualGamepad", TRUE, <<>>),
      SysEntry("input7", "missing", "", TRUE, <<>>),
      SysEntry("input7", "denied", "", TRUE, <<>>),
      SysEntry("input7", "ok", "Stratus Duo", TRUE, << "event3", "js1" >>) }

\* The children of the virtual device's entry, in the order listed.
ChildLists ==
    { <<>>, << "event5" >>, << "event5", "js0" >>, << "js0", "event5" >>,
      << "capabilities", "event5", "js0" >> }

VirtualEntries ==
    { SysEntry("input8", "ok", "VirtualGamepad", TRUE, c) : c \in ChildLists }
        \cup { SysEntry("input8", "ok", "VirtualGamepad", FALSE, <<>>) }

EntryLists ==
    { pre \o virt : pre \in { <<>> } \cup { << o >> : o \in OtherEntries },
                    virt \in { <<>> } \cup { << v >> : v \in VirtualEntries } }

\* What may be at an alias path before the call.
PriorObjects == { Absent, File, Dir, Link("event5"), Link("js0"), Link("event3") }

\* A file system: the listing of /sys/class/input, the nodes of /dev/input,
\* the directories that exist, those os.makedirs can create, those in which
\* unlink and symlink are refused, and what each alias path holds.
FileSystem(listable, entries, nodes, dirs, makeable, locked, objs) ==
    [ listable |-> listable, entries |-> entries, nodes |-> nodes, dirs |-> dirs,
      makeable |-> makeable, locked |-> locked, objs |-> objs ]

\* Nothing at any alias path.
NoAliases == [ p \in AliasPaths |-> Absent ]

\* The virtual device is listed with both nodes and /tmp is writable.
GoodFS ==
    FileSystem(TRUE,
               << SysEntry("input7", "ok", "Stratus Duo", TRUE, << "event3", "js1" >>),
                  SysEntry("input8", "ok", "VirtualGamepad", TRUE, << "event5", "js0" >>) >>,
               { "event3", "js1", "event5", "js0" }, { "/tmp" }, {}, {}, NoAliases)

\* /sys/class/input cannot be listed.
NoSysFS == [GoodFS EXCEPT !.listable = FALSE]

\* The file systems create_symlinks is studied on.
FileSystems ==
    { FileSystem(l, es, ns, { "/tmp" } \cup ds, mk, lk,
                 [ p \in AliasPaths |->
                     IF p = "/tmp/gamepad-event" \/ (p = "/opt/ev" /\ "/opt" \in ds) THEN oe
                     ELSE IF p = "/tmp/gamepad-js" THEN oj
                     ELSE Absent ]) :
        l \in BOOLEAN, es \in EntryLists,
        ns \in { { "event5", "js0" }, { "event5" }, {} },
        ds \in { {}, { "/opt" } }, mk \in { {}, { "/opt" } },
        lk \in { {}, { "/tmp" }, { "/opt" } },
        oe \in PriorObjects \ { Link("js0") }, oj \in PriorObjects \ { Link("event5") } }

\* The configurations create_symlinks is studied with.
AliasConfigs ==
    { [Defaults EXCEPT !.event_path = p] : p \in { "/tmp/gamepad-event", "/opt/ev", "gamepad-event" } }

\* create_symlinks has not been called.
NoReturn == [ ret |-> "none", reports |-> <<>>, unlinked |-> {} ]

VARIABLES
    pc,         \* where run() is
    devtab,     \* what each device reports (fixed during a run)
    plugged,    \* the device at ARGS.device_link, or NoDev
    openable,   \* whether InputDevice(path) succeeds on it
    holder,     \* who holds the exclusive grab: "none", "self", "other"
    real,       \* run()'s start-up handle
    firstOpened,\* the device of the first successful open
    caps,       \* run()'s caps
    ident,      \* run()'s bus, vendor, product, version
    ui,         \* the UInput object
    created,    \* UInput constructions so far
    dev,        \* the forward loop's handle
    ev,         \* the event being forwarded
    rin,        \* events read from the physical handle, in order
    vout,       \* calls the virtual device accepted, in order
    uiFaults,   \* how often ui.write or ui.syn has raised
    cycles,     \* successful grabs: 0, 1, or 2 for "two or more"
    argv,       \* the command line main() was given
    ARGS,       \* the global ARGS: NoArgs until main() has parsed argv
    fs,         \* the file system create_symlinks works on
    symret      \* what create_symlinks returned, printed and removed

vars ==
    << pc, devtab, plugged, openable, holder, real, firstOpened, caps, ident, ui,
       created, dev, ev, rin, vout, uiFaults, cycles, argv, ARGS, fs, symret >>

cfgVars == << argv, ARGS >>
hostVars == << cfgVars, fs, symret >>

envVars == << plugged, openable, holder >>
startVars == << real, firstOpened, caps, ident, ui, created >>
relayVars == << dev, ev, rin, vout, uiFaults, cycles >>

FixedTable == [d \in Devices |-> IF d = "padA" THEN SourceA ELSE SourceB]

InitCommon ==
    /\ pc = "start"
    /\ openable \in BOOLEAN
    /\ holder = "none"
    /\ real = NoHandle
    /\ firstOpened = NoDev
    /\ caps = NoCaps
    /\ ident = NoIdent
    /\ ui = NoUI
    /\ created = 0
    /\ dev = NoHandle
    /\ ev = NoEvent
    /\ rin = <<>>
    /\ vout = <<>>
    /\ uiFaults = 0
    /\ cycles = 0
    /\ symret = NoReturn

\* The command lines run() is studied with: none, and an alias path
\* without a directory part.
RunLines == { <<>>, << "--event-path", "gamepad-event" >> }

\* The file systems run() is studied on.
RunFileSystems == { GoodFS, NoSysFS }

Init ==
    /\ InitCommon
    /\ devtab = FixedTable
    /\ plugged \in Devices \cup {NoDev}
    /\ argv \in RunLines
    /\ ARGS = parse_args(argv)
    /\ fs \in RunFileSystems

\* -------------------------------------------------------- wait_for_device

\* os.path.exists(ARGS.device_link)
PathExists == plugged # NoDev

\* InputDevice(ARGS.device_link) returns a handle on the device now at the path.
OpenSucceeds == PathExists /\ openable

OpenedHandle ==
    [device |-> plugged, alive |-> TRUE, grabbed |-> FALSE, failed |-> FALSE,
     closed |-> FALSE]

\* The path is absent: fall through to time.sleep(1).
ProbeAbsent(here, sleepAt) ==
    /\ pc = here
    /\ ~PathExists
    /\ pc' = sleepAt
    /\ UNCHANGED << devtab, hostVars, envVars, startVars, relayVars >>

\* The open's exception leaves wait_for_device.
ProbeOpenFailsPropagates(here, sleepAt) ==
    /\ pc = here
    /\ PathExists /\ ~OpenSucceeds
    /\ pc' = "crashed"
    /\ UNCHANGED << devtab, hostVars, envVars, startVars, relayVars >>

\* The open raises: caught inside wait_for_device, then time.sleep(1).
ProbeOpenFails(here, sleepAt) ==
    /\ pc = here
    /\ PathExists /\ ~OpenSucceeds
    /\ pc' = sleepAt
    /\ UNCHANGED << devtab, hostVars, envVars, startVars, relayVars >>

\* time.sleep(1) inside wait_for_device, then the next probe.
PollSleep(sleepAt, here) ==
    /\ pc = sleepAt
    /\ pc' = here
    /\ UNCHANGED << devtab, hostVars, envVars, startVars, relayVars >>

\* ------------------------------------------------------- run(): start-up

StartRun ==
    /\ pc = "start"
    /\ pc' = "s_probe"
    /\ UNCHANGED << devtab, hostVars, envVars, startVars, relayVars >>

StartProbeAbsent == ProbeAbsent("s_probe", "s_sleep")
StartProbeOpenFails == ProbeOpenFails("s_probe", "s_sleep")
StartPollSleep == PollSleep("s_sleep", "s_probe")

\* real = wait_for_device()
StartProbeOpens ==
    /\ pc = "s_probe"
    /\ OpenSucceeds
    /\ real' = OpenedHandle
    /\ firstOpened' = IF firstOpened = NoDev THEN plugged ELSE firstOpened
    /\ pc' = "extract"
    /\ UNCHANGED << devtab, hostVars, envVars, caps, ident, ui, created, relayVars >>

\* caps = extract_capabilities(real)
ExtractCaps ==
    /\ pc = "extract"
    /\ real.alive
    /\ caps' = extract_capabilities(devtab[real.device])
    /\ pc' = "identity"
    /\ UNCHANGED << devtab, hostVars, envVars, real, firstOpened, ident, ui, created, relayVars >>

\* dev.capabilities() raises on a handle whose device is gone; nothing
\* catches it and run() ends.
ExtractRaises ==
    /\ pc = "extract"
    /\ ~real.alive
    /\ pc' = "crashed"
    /\ UNCHANGED << devtab, hostVars, envVars, startVars, relayVars >>

\* bus, vendor and product taken in each other's place.
IdentityOfSwapped(h) ==
    [bustype |-> Info(h.device).bustype, vendor |-> Info(h.device).product,
     product |-> Info(h.device).vendor, version |-> Info(h.device).version]

\* real.info.bustype, .vendor, .product, .version (cached at open).
IdentityOf(h) ==
    [bustype |-> Info(h.device).bustype, vendor |-> Info(h.device).vendor,
     product |-> Info(h.device).product, version |-> Info(h.device).version]

ReadIdentity ==
    /\ pc = "identity"
    /\ ident' = IdentityOf(real)
    /\ pc' = "close"
    /\ UNCHANGED << devtab, hostVars, envVars, real, firstOpened, caps, ui, created, relayVars >>

\* real.close()
CloseReal ==
    /\ pc = "close"
    /\ real' = [real EXCEPT !.closed = TRUE, !.alive = FALSE]
    /\ pc' = "create"
    /\ UNCHANGED << devtab, hostVars, envVars, firstOpened, caps, ident, ui, created, relayVars >>

\* UInput(caps, name=..., bustype=bus, vendor=vendor, product=product, version=version)
NewUInput(c, i) ==
    [caps |-> c, name |-> "VirtualGamepad", bustype |-> i.bustype,
     vendor |-> i.vendor, product |-> i.product, version |-> i.version]

CreateUI ==
    /\ pc = "create"
    /\ ui' = NewUInput(caps, ident)
    /\ created' = IF created < MaxCreations THEN created + 1 ELSE created
    /\ pc' = "symlinks"
    /\ UNCHANGED << devtab, hostVars, envVars, real, firstOpened, caps, ident, relayVars >>

\* The set-up starts over when the construction fails.
AfterCreateErrorRetry == "s_probe"

\* UInput(...) is outside every try: its exception ends run().
AfterCreateError == "crashed"

\* UInput(...) raises (no access to /dev/uinput): nothing catches it.
CreateUIRaises ==
    /\ pc = "create"
    /\ pc' = AfterCreateError
    /\ UNCHANGED << devtab, hostVars, envVars, startVars, relayVars >>

\* create_symlinks() returns (True or False); its result is not used.
CreateSymlinksReturns ==
    /\ pc = "symlinks"
    /\ create_symlinks(fs, ARGS).ret # "raised"
    /\ fs' = create_symlinks(fs, ARGS).fs
    /\ symret' = [ ret |-> create_symlinks(fs, ARGS).ret,
                   reports |-> create_symlinks(fs, ARGS).reports,
                   unlinked |-> create_symlinks(fs, ARGS).unlinked ]
    /\ pc' = "l_probe"
    /\ UNCHANGED << devtab, cfgVars, envVars, startVars, relayVars >>

\* create_symlinks() raises (os.listdir, open or os.makedirs): the call is
\* outside the loop's try, so nothing catches it.
CreateSymlinksRaises ==
    /\ pc = "symlinks"
    /\ create_symlinks(fs, ARGS).ret = "raised"
    /\ fs' = create_symlinks(fs, ARGS).fs
    /\ symret' = [ ret |-> "raised", reports |-> create_symlinks(fs, ARGS).reports,
                   unlinked |-> create_symlinks(fs, ARGS).unlinked ]
    /\ pc' = "crashed"
    /\ UNCHANGED << devtab, cfgVars, envVars, startVars, relayVars >>

\* ------------------------------------------------- run(): the forward loop

\* Handlers without their time.sleep(1): the next probe follows at once.
HandlerNoBackoff(kind) == "l_probe"

\* Handlers that build the virtual device again.
HandlerRecreates(kind) == "create"

\* A handler that catches OSError alone.
HandlerOSErrorOnly(kind) == IF kind = "OSError" THEN "except_os" ELSE "crashed"

\* The except clause an exception raised inside the try reaches:
\* 'except (OSError, IOError)' or 'except Exception'.
Handler(kind) == IF kind = "OSError" THEN "except_os" ELSE "except_any"

ExceptionKinds == {"OSError", "Other"}

\* A grab error that is swallowed: the read loop starts all the same.
AfterGrabErrorIgnored == "read"

\* A grab error that is retried without the handler's sleep.
AfterGrabErrorNoBackoff == "l_probe"

\* dev.grab() raises OSError inside the try.
AfterGrabError == Handler("OSError")

\* The loop ends after the handler.
AfterBackoffExit == "exited"

\* The loop grabs the handle it already has again.
AfterBackoffRegrab == "grab"

\* The loop restarts at the creation of the virtual device.
AfterBackoffRecreate == "create"

\* 'while True': after a handler's time.sleep(1) the loop body starts again
\* at dev = wait_for_device().
AfterBackoff == "l_probe"

LoopProbeAbsent == ProbeAbsent("l_probe", "l_sleep")
LoopProbeOpenFails == ProbeOpenFails("l_probe", "l_sleep")
LoopPollSleep == PollSleep("l_sleep", "l_probe")

\* dev = wait_for_device(): the assignment drops the last reference to the
\* previous handle, which closes it and so releases a grab it still held.
LoopProbeOpens ==
    /\ pc = "l_probe"
    /\ OpenSucceeds
    /\ dev' = OpenedHandle
    /\ holder' = IF holder = "self" THEN "none" ELSE holder
    /\ firstOpened' = IF firstOpened = NoDev THEN plugged ELSE firstOpened
    /\ pc' = "grab"
    /\ UNCHANGED << devtab, hostVars, plugged, openable, real, caps, ident, ui, created,
                    ev, rin, vout, uiFaults, cycles >>

\* EVIOCGRAB succeeds on a live handle nobody else has grabbed.
GrabSucceeds == dev.alive /\ holder = "none"

Grab ==
    /\ pc = "grab"
    /\ GrabSucceeds
    /\ dev' = [dev EXCEPT !.grabbed = TRUE]
    /\ holder' = "self"
    /\ cycles' = IF cycles < 2 THEN cycles + 1 ELSE cycles
    /\ pc' = "read"
    /\ UNCHANGED << devtab, hostVars, plugged, openable, startVars, ev, rin, vout, uiFaults >>

GrabRaises ==
    /\ pc = "grab"
    /\ ~GrabSucceeds
    /\ dev' = [dev EXCEPT !.failed = TRUE]
    /\ pc' = AfterGrabError
    /\ UNCHANGED << devtab, hostVars, envVars, startVars, ev, rin, vout, uiFaults, cycles >>

\* The events the device behind handle h can deliver next: what it has, and
\* a SYN_REPORT only to close a frame that holds an event.
NextEvents(h) ==
    IF h.device # "padA" THEN {}
    ELSE IF rin = <<>> \/ rin[Len(rin)] = SynReport
         THEN PhysEvents \ {SynReport}
         ELSE PhysEvents

\* for e in dev.read_loop(): the next event arrives. (read_loop yielding
\* None changes nothing and is a stuttering step.)
ReadEventUpTo(n) ==
    /\ pc = "read"
    /\ dev.alive
    /\ Len(rin) < n
    /\ \E e \in NextEvents(dev) :
          /\ ev' = e
          /\ rin' = Append(rin, e)
    /\ pc' = "write"
    /\ UNCHANGED << devtab, hostVars, envVars, startVars, dev, vout, uiFaults, cycles >>

ReadEvent == ReadEventUpTo(MaxEvents)

LiveReadEvent == ReadEventUpTo(MaxLiveEvents)

\* The read raises OSError: the device behind the handle is gone.
ReadRaises ==
    /\ pc = "read"
    /\ ~dev.alive
    /\ dev' = [dev EXCEPT !.failed = TRUE]
    /\ pc' = Handler("OSError")
    /\ UNCHANGED << devtab, hostVars, envVars, startVars, ev, rin, vout, uiFaults, cycles >>

\* The event written twice.
WrittenTwice(e) == << [op |-> "write", ev |-> e], [op |-> "write", ev |-> e] >>

\* ui.write(e.type, e.code, e.value)
Written(e) == << [op |-> "write", ev |-> [type |-> e.type, code |-> e.code, value |-> e.value]] >>

WriteEvent ==
    /\ pc = "write"
    /\ vout' = vout \o Written(ev)
    /\ pc' = "syn"
    /\ UNCHANGED << devtab, hostVars, envVars, startVars, dev, ev, rin, uiFaults, cycles >>

\* ui.write raises: the event is not retried.
WriteRaises ==
    /\ pc = "write"
    /\ uiFaults < MaxUiFaults
    /\ \E kind \in ExceptionKinds : pc' = Handler(kind)
    /\ dev' = [dev EXCEPT !.failed = TRUE]
    /\ ev' = NoEvent
    /\ uiFaults' = uiFaults + 1
    /\ UNCHANGED << devtab, hostVars, envVars, startVars, rin, vout, cycles >>

\* ui.syn(): a SYN_REPORT on the virtual device.
Flushed == << [op |-> "syn", ev |-> SynReport] >>

SynFlush ==
    /\ pc = "syn"
    /\ vout' = vout \o Flushed
    /\ ev' = NoEvent
    /\ pc' = "read"
    /\ UNCHANGED << devtab, hostVars, envVars, startVars, dev, rin, uiFaults, cycles >>

SynRaises ==
    /\ pc = "syn"
    /\ uiFaults < MaxUiFaults
    /\ \E kind \in ExceptionKinds : pc' = Handler(kind)
    /\ dev' = [dev EXCEPT !.failed = TRUE]
    /\ ev' = NoEvent
    /\ uiFaults' = uiFaults + 1
    /\ UNCHANGED << devtab, hostVars, envVars, startVars, rin, vout, cycles >>

\* except (OSError, IOError): print, time.sleep(1)
BackoffDisconnected ==
    /\ pc = "except_os"
    /\ pc' = AfterBackoff
    /\ UNCHANGED << devtab, hostVars, envVars, startVars, relayVars >>

\* except Exception: print, traceback.print_exc(), time.sleep(1)
BackoffUnexpected ==
    /\ pc = "except_any"
    /\ pc' = AfterBackoff
    /\ UNCHANGED << devtab, hostVars, envVars, startVars, relayVars >>

\* ---------------------------------------------------------- environment

Plug ==
    /\ plugged = NoDev
    /\ plugged' \in Devices
    /\ UNCHANGED << pc, devtab, hostVars, openable, holder, startVars, relayVars >>

\* The device leaves: every handle on it is dead and any grab is gone.
Unplug ==
    /\ plugged # NoDev
    /\ plugged' = NoDev
    /\ holder' = "none"
    /\ real' = [real EXCEPT !.alive = FALSE]
    /\ dev' = [dev EXCEPT !.alive = FALSE]
    /\ UNCHANGED << pc, devtab, hostVars, openable, firstOpened, caps, ident, ui, created,
                    ev, rin, vout, uiFaults, cycles >>

ToggleOpenable ==
    /\ openable' = ~openable
    /\ UNCHANGED << pc, devtab, hostVars, plugged, holder, startVars, relayVars >>

OtherGrabs ==
    /\ plugged # NoDev
    /\ holder = "none"
    /\ holder' = "other"
    /\ UNCHANGED << pc, devtab, hostVars, plugged, openable, startVars, relayVars >>

OtherUngrabs ==
    /\ holder = "other"
    /\ holder' = "none"
    /\ UNCHANGED << pc, devtab, hostVars, plugged, openable, startVars, relayVars >>

\* ------------------------------------------------------- specifications

Startup ==
    \/ StartRun
    \/ StartProbeAbsent
    \/ StartProbeOpenFails
    \/ StartPollSleep
    \/ StartProbeOpens
    \/ ExtractCaps
    \/ ExtractRaises
    \/ ReadIdentity
    \/ CloseReal
    \/ CreateUI
    \/ CreateUIRaises
    \/ CreateSymlinksReturns
    \/ CreateSymlinksRaises

LoopSteps ==
    \/ LoopProbeAbsent
    \/ LoopProbeOpenFails
    \/ LoopPollSleep
    \/ LoopProbeOpens
    \/ Grab
    \/ GrabRaises
    \/ ReadRaises
    \/ WriteEvent
    \/ WriteRaises
    \/ SynFlush
    \/ SynRaises
    \/ BackoffDisconnected
    \/ BackoffUnexpected

Environment ==
    \/ Plug
    \/ Unplug
    \/ ToggleOpenable
    \/ OtherGrabs
    \/ OtherUngrabs

Next == Startup \/ LoopSteps \/ ReadEvent \/ Environment

Spec == Init /\ [][Next]_vars

\* run() is one sequential thread: a step that does not wait for the
\* device to deliver an event is eventually taken (sleeps end, calls return
\* or raise). The blocking read of an idle, connected device may wait forever.
LiveNext == Startup \/ LoopSteps \/ LiveReadEvent \/ Environment

LiveSpec == Init /\ [][LiveNext]_vars /\ WF_vars(Startup) /\ WF_vars(LoopSteps)

\* extract_capabilities and the start-up sequence on every source device
\* of the bounded family, with the device connected throughout.
CapInit ==
    /\ InitCommon
    /\ openable = TRUE
    /\ plugged = "padA"
    /\ argv = <<>>
    /\ ARGS = parse_args(argv)
    /\ fs = GoodFS
    /\ devtab \in { [d \in Devices |-> IF d = "padA" THEN s ELSE SourceB] : s \in Sources }

CapNext ==
    \/ StartRun
    \/ StartProbeOpens
    \/ ExtractCaps
    \/ ReadIdentity
    \/ CloseReal
    \/ CreateUI

CapSpec == CapInit /\ [][CapNext]_vars

\* ---------------------------------------------------------------- main()

\* main() is entered with a command line; nothing else has happened.
\* run() has not started and no device is connected.
NotStarted ==
    /\ devtab = FixedTable
    /\ plugged = NoDev
    /\ openable = TRUE
    /\ holder = "none"
    /\ real = NoHandle
    /\ firstOpened = NoDev
    /\ caps = NoCaps
    /\ ident = NoIdent
    /\ ui = NoUI
    /\ created = 0
    /\ dev = NoHandle
    /\ ev = NoEvent
    /\ rin = <<>>
    /\ vout = <<>>
    /\ uiFaults = 0
    /\ cycles = 0

ArgInit ==
    /\ pc = "main"
    /\ argv \in CommandLines
    /\ ARGS = NoArgs
    /\ fs = GoodFS
    /\ symret = NoReturn
    /\ NotStarted

\* ARGS = parse_args(cli_args), then run().
MainParses ==
    /\ pc = "main"
    /\ parse_args(argv) # ParserExit
    /\ ARGS' = parse_args(argv)
    /\ pc' = "start"
    /\ UNCHANGED << devtab, argv, fs, symret, envVars, startVars, relayVars >>

\* parse_args raises SystemExit: main() does not reach run().
MainExits ==
    /\ pc = "main"
    /\ parse_args(argv) = ParserExit
    /\ pc' = "exited"
    /\ UNCHANGED << devtab, hostVars, envVars, startVars, relayVars >>

ArgNext ==
    \/ MainParses
    \/ MainExits

ArgSpec == ArgInit /\ [][ArgNext]_vars

\* ----------------------------------------- create_symlinks(), called twice

\* create_symlinks is about to be called on some file system.
SymInit ==
    /\ pc = "first"
    /\ argv = <<>>
    /\ ARGS \in AliasConfigs
    /\ fs \in FileSystems
    /\ symret = NoReturn
    /\ NotStarted

\* One call of create_symlinks().
Invoke(here, next) ==
    /\ pc = here
    /\ fs' = create_symlinks(fs, ARGS).fs
    /\ symret' = [ ret |-> create_symlinks(fs, ARGS).ret,
                   reports |-> create_symlinks(fs, ARGS).reports,
                   unlinked |-> create_symlinks(fs, ARGS).unlinked ]
    /\ pc' = IF create_symlinks(fs, ARGS).ret = "raised" THEN "raised" ELSE next
    /\ UNCHANGED << devtab, cfgVars, envVars, startVars, relayVars >>

FirstInvocation == Invoke("first", "second")

SecondInvocation == Invoke("second", "done")

SymNext ==
    \/ FirstInvocation
    \/ SecondInvocation

SymSpec == SymInit /\ [][SymNext]_vars

\* ================================================================ claims

\* ---- helpers of the claims (stated without the operators of the model)

Excepts == {"except_os", "except_any"}
LoopPcs == {"l_probe", "l_sleep", "grab", "read", "write", "syn"} \cup Excepts
RelayPcs == {"read", "write", "syn"}

\* The absolute-axis entries of a descriptor all carry a whole AbsInfo.
AbsComplete(c) ==
    "EV_ABS" \in DOMAIN c =>
        \A i \in 1 .. Len(c["EV_ABS"]) : DOMAIN c["EV_ABS"][i].info = AbsInfoFields

\* The per-code query is made for this entry and gives no metadata.
QueryFails(src, e) == e.kind # "pair" /\ src.absq[e.code] # "ok"

RawAbs(src) == IF "EV_ABS" \in DOMAIN src.raw THEN src.raw["EV_ABS"] ELSE <<>>

\* The source with the failing entries taken out of raw[EV_ABS].
WithoutFailing(src) ==
    [raw |-> [t \in DOMAIN src.raw |->
                 IF t = "EV_ABS"
                 THEN SelectSeq(src.raw[t], LAMBDA e : ~QueryFails(src, e))
                 ELSE src.raw[t]],
     absq |-> [c \in AbsCodes |-> "ok"]]

CodesOf(abs_list) == { abs_list[i].code : i \in 1 .. Len(abs_list) }

CapAbs(c) == IF "EV_ABS" \in DOMAIN c THEN c["EV_ABS"] ELSE <<>>

\* The source device the start-up handle was opened on.
Opened == devtab[real.device]

\* C6: every absolute-axis entry of the descriptor extract_capabilities
\* returns, and of the descriptor the virtual device is created with,
\* carries complete calibration metadata, whatever the bulk and per-code
\* queries answered.
C6_AxesComplete ==
    /\ caps # NoCaps => AbsComplete(caps)
    /\ ui # NoUI => AbsComplete(ui.caps)

\* C6 witness: the virtual device was created from a source with one axis
\* whose per-code query returned None and one axis that came with metadata.
C6_Witness ==
    /\ ui # NoUI
    /\ \E i, j \in 1 .. Len(RawAbs(Opened)) :
          /\ RawAbs(Opened)[i].kind = "int"
          /\ Opened.absq[RawAbs(Opened)[i].code] = "none"
          /\ RawAbs(Opened)[j].kind = "pair"

\* C7: when per-code queries fail, exactly the codes whose query failed
\* are missing from the descriptor, the remaining axes appear in the
\* source's order, and the whole descriptor equals the one the same source
\* gives without the failing entries.
C7_PartialFailure ==
    caps # NoCaps =>
        /\ CodesOf(CapAbs(caps))
             = CodesOf(SelectSeq(RawAbs(Opened), LAMBDA e : ~QueryFails(Opened, e)))
        /\ Len(CapAbs(caps))
             = Len(SelectSeq(RawAbs(Opened), LAMBDA e : ~QueryFails(Opened, e)))
        /\ caps = extract_capabilities(WithoutFailing(Opened))
        /\ caps["EV_KEY"] = (IF "EV_KEY" \in DOMAIN Opened.raw THEN Opened.raw["EV_KEY"] ELSE <<>>)

\* C7 witness: the first axis entry's query raised, a later entry was kept,
\* and the source has buttons and effects.
C7_Witness ==
    /\ caps # NoCaps
    /\ Len(RawAbs(Opened)) >= 2
    /\ RawAbs(Opened)[1].kind = "int"
    /\ Opened.absq[RawAbs(Opened)[1].code] = "raise"
    /\ ~QueryFails(Opened, RawAbs(Opened)[2])
    /\ Len(CapAbs(caps)) = 1
    /\ caps["EV_KEY"] # <<>>
    /\ "EV_FF" \in DOMAIN caps

\* ---- the relay

\* Events read and fully handled: the one in flight is not counted.
Handled == IF pc \in {"write", "syn"} THEN Len(rin) - 1 ELSE Len(rin)

\* What the virtual device has accepted when each of the first n events
\* read was written once and flushed once, in order.
Relayed(n) ==
    [i \in 1 .. 2 * n |->
        IF i % 2 = 1 THEN [op |-> "write", ev |-> rin[(i + 1) \div 2]]
                     ELSE [op |-> "syn", ev |-> SynReport]]

\* ... followed by the write of the event in flight, once it is written.
RelayedNow ==
    Relayed(Handled)
      \o (IF pc = "syn" THEN << [op |-> "write", ev |-> rin[Len(rin)]] >> ELSE <<>>)

WritesOf(out) == SelectSeq(out, LAMBDA x : x.op = "write")

\* a is b with some members left out, the order kept.
RECURSIVE IsSubseq(_, _)
IsSubseq(a, b) ==
    IF a = <<>> THEN TRUE
    ELSE IF b = <<>> THEN FALSE
    ELSE IF Head(a) = Head(b) THEN IsSubseq(Tail(a), Tail(b))
    ELSE IsSubseq(a, Tail(b))

EventsOf(out) == [i \in 1 .. Len(out) |-> out[i].ev]

C2_CreatedOnce ==
    /\ [](created <= 1)
    /\ [][ui # NoUI => ui' = ui]_vars

\* C2 witness: the loop is relaying for the second time with the one
\* virtual device.
C2_Witness == pc = "read" /\ cycles >= 2 /\ created = 1 /\ ui # NoUI

\* The device can be opened and grabbed.
LinkUsable == plugged # NoDev /\ openable /\ holder # "other"

\* C3: after every failure in the loop the loop is back at the probe for
\* the device; if from some time on the device stays openable and
\* grabbable, the loop relays again; and it relays only ever with the one
\* virtual device created at start-up.
C3_Reconnects ==
    /\ (pc \in Excepts) ~> (pc = "l_probe")
    /\ (<>[]LinkUsable) => ((pc \in Excepts) ~> (pc = "read"))
    /\ [](pc \in RelayPcs => created = 1)

\* C3 witness: the loop relays again on a new handle after a disconnect.
C3_Witness ==
    /\ pc = "read"
    /\ cycles >= 2
    /\ dev.alive /\ ~dev.failed
    /\ created = 1

\* C4: no step leaves the loop; an error on grab, read, write or flush
\* leads to one of the two handlers, and a handler leads back to the probe.
C4_NoTerminalState ==
    /\ [][(pc \in LoopPcs) => (pc' \in LoopPcs)]_vars
    /\ [][(pc \in {"grab", "read", "write", "syn"} /\ ~dev.failed /\ dev'.failed)
             => (pc' \in Excepts)]_vars
    /\ [][(pc \in Excepts /\ pc' # pc) => (pc' = "l_probe")]_vars
    /\ [][(pc = "l_sleep" /\ pc' # pc) => (pc' = "l_probe")]_vars

\* C4 witness: the loop is back at the probe after a write or flush on the
\* virtual device raised.
C4_Witness == pc = "l_probe" /\ uiFaults > 0 /\ dev.failed

\* C5: the virtual device presents the identity and the capabilities of
\* the first device opened, both were captured by the time that handle was
\* closed, and this holds in every later state whatever is connected.
C5_IdentityPinned ==
    /\ ui # NoUI =>
          /\ ui.bustype = Info(firstOpened).bustype
          /\ ui.vendor = Info(firstOpened).vendor
          /\ ui.product = Info(firstOpened).product
          /\ ui.version = Info(firstOpened).version
          /\ ui.caps = extract_capabilities(devtab[firstOpened])
    /\ real.closed =>
          /\ ident = Info(firstOpened)
          /\ caps = extract_capabilities(devtab[firstOpened])

\* C5 witness: the loop relays from a device other than the first one.
C5_Witness ==
    /\ ui # NoUI
    /\ pc = "read"
    /\ dev.alive
    /\ dev.device # firstOpened
    /\ Info(dev.device) # Info(firstOpened)

\* No category of the descriptor holds a code.
AllEmpty(c) == \A t \in DOMAIN c : c[t] = <<>>

\* C8 as stated: when the enumeration gave nothing for every category, no
\* virtual device is ever created and the loop is never entered.
C8_EmptyCapsFatal ==
    (caps # NoCaps /\ AllEmpty(caps)) => (ui = NoUI /\ pc \notin LoopPcs)

\* C9: while the loop reads and forwards, the handle it uses is one whose
\* grab succeeded and that has not failed, and as long as that device is
\* connected the grab is this process's own.
C9_GrabbedWhileRelaying ==
    pc \in RelayPcs =>
        /\ dev.grabbed
        /\ ~dev.failed
        /\ dev.alive => holder = "self"

\* C9 witness: an event read from a re-opened, re-grabbed handle is being
\* forwarded.
C9_Witness ==
    /\ pc = "write"
    /\ cycles >= 2
    /\ dev.grabbed /\ dev.alive
    /\ holder = "self"

\* What a reader of the virtual device sees: the written triples and a
\* SYN_REPORT for each flush.
ConsumerStream == EventsOf(vout)

\* The frames of a stream: the runs of events between SYN_REPORTs, empty
\* runs left out (a SYN_REPORT that closes nothing is not a frame).
RECURSIVE FramesFrom(_, _)
FramesFrom(stream, open) ==
    IF stream = <<>> THEN <<>>
    ELSE IF Head(stream) = SynReport
         THEN (IF open = <<>> THEN <<>> ELSE << open >>) \o FramesFrom(Tail(stream), <<>>)
         ELSE FramesFrom(Tail(stream), Append(open, Head(stream)))

Frames(stream) == FramesFrom(stream, <<>>)

\* C10 as stated: once the physical device has closed a frame and the
\* relay has forwarded everything without a fault, the reader of the
\* virtual device has seen the same frames.
C10_FramingPreserved ==
    (pc = "read" /\ uiFaults = 0 /\ rin # <<>> /\ rin[Len(rin)] = SynReport)
        => Frames(ConsumerStream) = Frames(rin)

\* ---- the failure transitions

\* C15: a read error takes the loop out of RELAYING into the OSError
\* handler; the probe is reached from inside the loop only out of a
\* handler's sleep or the poll's sleep; and a handle that has failed is
\* never read again nor anything forwarded for it.
C15_ReadFailure ==
    /\ [][(pc = "read" /\ ~dev.failed /\ dev'.failed) => (pc' = "except_os")]_vars
    /\ [][(pc \in LoopPcs /\ pc # "l_probe" /\ pc' = "l_probe")
             => (pc \in Excepts \cup {"l_sleep"})]_vars
    /\ [](dev.failed => pc \notin RelayPcs)
    /\ [][(dev.failed /\ dev'.failed) => (rin' = rin /\ vout' = vout)]_vars

\* C15 witness: the loop sits in the OSError handler after a read on a
\* grabbed handle failed, with events relayed before.
C15_Witness ==
    /\ pc = "except_os"
    /\ dev.grabbed /\ dev.failed /\ ~dev.alive
    /\ Len(rin) >= 1
    /\ uiFaults = 0

\* C16: a failed grab leads to the same handler as a disconnect, reads
\* nothing from the handle, and the loop never relays on a handle that was
\* not grabbed.
C16_GrabFailure ==
    /\ [][(pc = "grab" /\ pc' # pc /\ ~dev'.grabbed)
             => (pc' = "except_os" /\ dev'.failed /\ rin' = rin /\ vout' = vout)]_vars
    /\ [](~dev.grabbed => pc \notin RelayPcs)

\* C16 witness: the grab failed on a live device another process holds.
C16_Witness ==
    /\ pc = "except_os"
    /\ dev.alive /\ ~dev.grabbed /\ dev.failed
    /\ holder = "other"

\* C17: wait_for_device is left only with a handle just opened on the
\* device at the path; a probe that finds no path or cannot open goes to
\* the poll's sleep, and the sleep to the next probe.
C17_WaitForDevice ==
    /\ [][(pc = "s_probe" /\ pc' # pc)
             => \/ (pc' = "s_sleep" /\ (plugged = NoDev \/ ~openable))
                \/ (pc' = "extract" /\ plugged # NoDev /\ openable
                      /\ real'.device = plugged /\ real'.alive)]_vars
    /\ [][(pc = "l_probe" /\ pc' # pc)
             => \/ (pc' = "l_sleep" /\ (plugged = NoDev \/ ~openable))
                \/ (pc' = "grab" /\ plugged # NoDev /\ openable
                      /\ dev'.device = plugged /\ dev'.alive)]_vars
    /\ [][(pc = "s_sleep" /\ pc' # pc) => (pc' = "s_probe")]_vars
    /\ [][(pc = "l_sleep" /\ pc' # pc) => (pc' = "l_probe")]_vars

\* C17 witness: the loop sleeps after an open failed on a present path.
C17_Witness == pc = "l_sleep" /\ plugged # NoDev /\ ~openable

\* C18: the loop grabs and reads only a handle that has not failed; the
\* grab is reached only by a new open; a failed handle stays failed until
\* that open replaces it; the start-up handle is closed before the virtual
\* device exists and is never grabbed.
C18_FreshHandle ==
    /\ [](pc \in RelayPcs \cup {"grab"} => (~dev.failed /\ ~dev.closed))
    /\ [][(pc' = "grab" /\ pc # "grab")
             => (pc = "l_probe" /\ dev'.alive /\ ~dev'.failed /\ ~dev'.grabbed)]_vars
    /\ [][(dev.failed /\ ~dev'.failed) => (pc = "l_probe" /\ pc' = "grab")]_vars
    /\ [](ui # NoUI => real.closed)
    /\ [](~real.grabbed /\ ~real.failed)

\* C18 witness: the loop relays on a new handle while the device of the
\* start-up handle is a different one.
C18_Witness ==
    /\ pc = "write"
    /\ cycles >= 2
    /\ real.closed
    /\ dev.device # real.device

\* C19: a failed construction of the virtual device ends run(): the step
\* leads to the end, the end is final, and at an end without a virtual
\* device the loop was never entered.
C19_CreationFatal ==
    /\ [][(pc = "create" /\ pc' # pc /\ ui' = NoUI) => (pc' = "crashed")]_vars
    /\ [][(pc = "crashed") => (pc' = "crashed")]_vars
    /\ []((pc = "crashed" /\ ui = NoUI)
            => /\ dev = NoHandle /\ cycles = 0 /\ created = 0
               /\ symret = NoReturn
               /\ \A p \in AliasPaths : fs.objs[p] = Absent)

\* C19 witness: run() ended at the construction of the virtual device.
C19_Witness == pc = "crashed" /\ real.closed /\ ui = NoUI

\* C20: the descriptor holds EV_FF exactly when the source reports an
\* effect, then with the source's list, and always holds EV_KEY with the
\* source's button list, the empty list when the source has none.
C20_KeyAndFF ==
    caps # NoCaps =>
        /\ ("EV_FF" \in DOMAIN caps)
             <=> ("EV_FF" \in DOMAIN Opened.raw /\ Opened.raw["EV_FF"] # <<>>)
        /\ "EV_FF" \in DOMAIN caps => caps["EV_FF"] = Opened.raw["EV_FF"]
        /\ "EV_KEY" \in DOMAIN caps
        /\ caps["EV_KEY"]
             = (IF "EV_KEY" \in DOMAIN Opened.raw THEN Opened.raw["EV_KEY"] ELSE <<>>)

\* C20 witness: a source with an empty effect list and an empty button list.
C20_Witness ==
    /\ caps # NoCaps
    /\ "EV_FF" \in DOMAIN Opened.raw /\ Opened.raw["EV_FF"] = <<>>
    /\ "EV_KEY" \in DOMAIN Opened.raw /\ Opened.raw["EV_KEY"] = <<>>

\* ---- the command line

\* argv is a list of option, value pairs over the four options.
SuppliedPairs ==
    /\ Len(argv) % 2 = 0
    /\ \A k \in 1..(Len(argv) \div 2) : argv[2 * k - 1] \in Options

\* The string supplied with option o, the last one when o is repeated, or
\* the default when argv does not hold o.
Supplied(o, default) ==
    LET at == { k \in 1..(Len(argv) \div 2) : argv[2 * k - 1] = o }
    IN IF at = {} THEN default
       ELSE argv[2 * (CHOOSE k \in at : \A j \in at : j <= k)]

\* The configuration the tests expect for a list of pairs.
AsSupplied ==
    /\ pc = "start"
    /\ ARGS = [ device_link |-> Supplied("--device-link",
                    "/dev/input/by-id/usb-1038_SteelSeries_Stratus_Duo-event-joystick"),
                event_path |-> Supplied("--event-path", "/tmp/gamepad-event"),
                js_path |-> Supplied("--js-path", "/tmp/gamepad-js"),
                virtual_name |-> Supplied("--virtual-name", "VirtualGamepad") ]

\* Every supplied string is an argument to argparse (none begins with "-").
PlainlySupplied ==
    \A k \in 1..(Len(argv) \div 2) : argv[2 * k] \notin OptionLike

Located(f, args) ==
    { i \in 1..Len(f.entries) :
        /\ IsInputEntry(f.entries[i].entry)
        /\ f.entries[i].name_file = "ok"
        /\ f.entries[i].name = args.virtual_name }

\* The virtual device is listed, with an event and a joystick child whose
\* nodes exist, no error on the way to it, and both alias paths can be
\* written: the directory exists or can be made, removal and creation are
\* permitted in it, and the path does not hold a directory.
Publishable(f, args) ==
    /\ f.listable
    /\ Located(f, args) # {}
    /\ \A i \in 1..Len(f.entries) : f.entries[i].name_file # "denied"
    /\ \A i \in Located(f, args) :
          /\ f.entries[i].listable
          /\ \E k \in 1..Len(f.entries[i].children) :
                /\ ChildKind(f.entries[i].children[k]) = "event"
                /\ f.entries[i].children[k] \in f.nodes
          /\ \E k \in 1..Len(f.entries[i].children) :
                /\ ChildKind(f.entries[i].children[k]) = "js"
                /\ f.entries[i].children[k] \in f.nodes
    /\ \A dst \in { args.event_path, args.js_path } :
          /\ DirName(dst) \in f.dirs \cup f.makeable
          /\ DirName(dst) \notin f.locked
          /\ f.objs[dst].kind # "dir"

\* dst holds a link to an existing node of the given kind that belongs to
\* the virtual device.
ValidAlias(f, args, dst, kind) ==
    /\ f.objs[dst].kind = "link"
    /\ f.objs[dst].target \in f.nodes
    /\ ChildKind(f.objs[dst].target) = kind
    /\ \E i \in Located(f, args) : \E k \in 1..Len(f.entries[i].children) :
          f.entries[i].children[k] = f.objs[dst].target

BothValid(f, args) ==
    /\ ValidAlias(f, args, args.event_path, "event")
    /\ ValidAlias(f, args, args.js_path, "js")

C11_DiscoveryAdvisory ==
    [][(pc = "symlinks" /\ pc' # pc)
          => /\ pc' = "l_probe"
             /\ \/ BothValid(fs', ARGS')
                \/ \E k \in 1..Len(symret'.reports) :
                      symret'.reports[k] \in { "Could not find", "Error removing",
                                               "Error creating" }]_vars

\* C13: run() ends only by a failed capability enumeration (no descriptor
\* yet) or a failed creation of the virtual device (no virtual device yet).
C13_OnlyTwoFatal == pc = "crashed" => (caps = NoCaps \/ ui = NoUI)

\* ---- the stale-alias policy

\* The alias path of a kind of node.
PathOf(args, kind) == IF kind = "event" THEN args.event_path ELSE args.js_path

\* The existing nodes of a kind under the listed virtual device.
NodesOf(f, args, kind) ==
    { c \in f.nodes :
        /\ ChildKind(c) = kind
        /\ \E i \in Located(f, args) : \E k \in 1..Len(f.entries[i].children) :
              f.entries[i].children[k] = c }

\* The path of the kind holds a link to an existing node of the device.
Relinked(f, args, kind) ==
    /\ f.objs[PathOf(args, kind)].kind = "link"
    /\ f.objs[PathOf(args, kind)].target \in NodesOf(f, args, kind)

\* A call that returns on a device whose node of the kind exists, with a
\* link, a plain file or nothing at the alias path.
PolicyCase(kind) ==
    /\ pc = "first" /\ pc' = "second"
    /\ NodesOf(fs, ARGS, kind) # {}
    /\ fs.objs[PathOf(ARGS, kind)].kind \in { "link", "file", "absent" }

C22_UiFailure ==
    /\ [][(pc \in {"write", "syn"} /\ uiFaults' # uiFaults)
             => /\ pc' \in Excepts
                /\ vout' = vout /\ rin' = rin
                /\ dev'.failed
                /\ ui' = ui /\ created' = created]_vars
    /\ [][(pc \in Excepts /\ pc' # pc) => (pc' = "l_probe" /\ ui' = ui)]_vars
    /\ []((uiFaults > 0 /\ pc \in RelayPcs) => (~dev.failed /\ dev.grabbed))
    /\ []((uiFaults > 0) => (ui = NewUInput(caps, ident) /\ created = 1))

\* C22 witness: after a failure of the virtual device the loop is relaying
\* again, on a new grabbed handle, into the same virtual device.
C22_Witness ==
    /\ pc = "write"
    /\ uiFaults = 1
    /\ dev.grabbed /\ ~dev.failed
    /\ created = 1
    /\ Len(vout) >= 1

====
